---- MODULE Spec2Model ----
(***************************************************************************)
(* A model of cm.py (SimpleModuleManager): the module store, compile,      *)
(* list_modules, activate / deactivate and download_essential_modules.     *)
(*                                                                         *)
(* A document is a sequence of tokens.  Every token stands for a fixed     *)
(* piece of text ("---", "\n", " ", ":", a quote, or a run of word         *)
(* characters), so str.startswith, str.split, str.strip and the regular    *)
(* expression of activate / deactivate are computed on tokens exactly as   *)
(* Python computes them on the characters the tokens stand for.            *)
(***************************************************************************)
EXTENDS Integers, Sequences, FiniteSets, TLC

VARIABLES store, scanOrder, output, lastOp, dlIndex, calls

vars == <<store, scanOrder, output, lastOp, dlIndex, calls>>

-----------------------------------------------------------------------------
(* Tokens *)

DELIM == "---"
NL == "\n"
SP == " "
COLON == ":"
QUOTE == "\""

Digits == {"0", "1", "3", "4", "5", "8", "9"}

\* Runs of characters of the class \w of Python's re module.
WordTokens == {"active", "priority", "true", "false", "yes", "no", "False", "x"} \cup Digits

\* Characters str.strip() removes.
Whitespace == {SP, NL}

-----------------------------------------------------------------------------
(* String helpers *)

RECURSIVE LStrip(_)
LStrip(s) == IF s # <<>> /\ Head(s) \in Whitespace THEN LStrip(Tail(s)) ELSE s

RECURSIVE RStrip(_)
RStrip(s) ==
    IF s # <<>> /\ s[Len(s)] \in Whitespace THEN RStrip(SubSeq(s, 1, Len(s) - 1)) ELSE s

\* str.strip()
Strip(s) == RStrip(LStrip(s))

\* The index of the first occurrence of token t in s, 0 when there is none.
RECURSIVE IndexFrom(_, _, _)
IndexFrom(s, t, i) ==
    IF i > Len(s) THEN 0
    ELSE IF s[i] = t THEN i
    ELSE IndexFrom(s, t, i + 1)

IndexOf(s, t) == IndexFrom(s, t, 1)

\* str.split("\n"): the lines of s, always at least one.
RECURSIVE SplitNL(_)
SplitNL(s) ==
    LET i == IndexOf(s, NL)
    IN  IF i = 0 THEN <<s>>
        ELSE <<SubSeq(s, 1, i - 1)>> \o SplitNL(SubSeq(s, i + 1, Len(s)))

\* "\n".join(lines)
RECURSIVE JoinNL(_)
JoinNL(ls) ==
    IF ls = <<>> THEN <<>>
    ELSE IF Len(ls) = 1 THEN ls[1]
    ELSE ls[1] \o <<NL>> \o JoinNL(Tail(ls))

\* str.lower() of a token.
Lower(t) == IF t = "False" THEN "false" ELSE t

LowerAll(s) == [i \in 1..Len(s) |-> Lower(s[i])]

-----------------------------------------------------------------------------
(* parse_frontmatter *)

\* A metadata value: a Python bool or a Python str.
BoolVal(b) == [kind |-> "bool", b |-> b, s |-> <<>>]
StrVal(s) == [kind |-> "str", b |-> FALSE, s |-> s]

\* Python truthiness of a metadata value.
Truthy(v) == IF v.kind = "bool" THEN v.b ELSE v.s # <<>>

\* The "Handle booleans" step of parse_frontmatter.
Coerce(val) ==
    IF LowerAll(val) \in {<<"true">>, <<"yes">>} THEN BoolVal(TRUE)
    ELSE IF LowerAll(val) \in {<<"false">>, <<"no">>} THEN BoolVal(FALSE)
    ELSE StrVal(val)

\* metadata[key] = val
Put(m, key, val) ==
    [k \in DOMAIN m \cup {key} |-> IF k = key THEN val ELSE m[k]]

\* The loop of parse_frontmatter over lines[1:].
RECURSIVE ParseLines(_, _)
ParseLines(lines, m) ==
    IF lines = <<>> THEN m
    ELSE IF Strip(Head(lines)) = <<DELIM>> THEN m
    ELSE LET line == Head(lines)
             c == IndexOf(line, COLON)
         IN  IF c = 0 THEN ParseLines(Tail(lines), m)
             ELSE ParseLines(Tail(lines),
                             Put(m, Strip(SubSeq(line, 1, c - 1)),
                                 Coerce(Strip(SubSeq(line, c + 1, Len(line))))))

EmptyMeta == [k \in {} |-> BoolVal(FALSE)]

StartsWithDelim(content) == content # <<>> /\ Head(content) = DELIM

parse_frontmatter(content) ==
    IF StartsWithDelim(content)
    THEN ParseLines(Tail(SplitNL(content)), EmptyMeta)
    ELSE EmptyMeta

\* dict.get(key, default)
Get(m, key, default) == IF key \in DOMAIN m THEN m[key] ELSE default

ACTIVE == <<"active">>
PRIORITY == <<"priority">>

-----------------------------------------------------------------------------
(* compile *)

DigitValue(t) ==
    CASE t = "0" -> 0 [] t = "1" -> 1 [] t = "3" -> 3 [] t = "4" -> 4
      [] t = "5" -> 5 [] t = "8" -> 8 [] t = "9" -> 9

RECURSIVE Decimal(_, _)
Decimal(s, acc) ==
    IF s = <<>> THEN acc ELSE Decimal(Tail(s), 10 * acc + DigitValue(Head(s)))

IsDecimal(s) == s # <<>> /\ \A i \in 1..Len(s) : s[i] \in Digits

DefaultPriority == 5

\* int(metadata.get("priority", 5)): the value, or ok = FALSE where int() raises
\* ValueError.
IntPriority(m) ==
    IF PRIORITY \notin DOMAIN m THEN [ok |-> TRUE, n |-> DefaultPriority]
    ELSE LET v == m[PRIORITY]
         IN  IF v.kind = "bool" THEN [ok |-> TRUE, n |-> IF v.b THEN 1 ELSE 0]
             ELSE IF IsDecimal(v.s) THEN [ok |-> TRUE, n |-> Decimal(v.s, 0)]
             ELSE [ok |-> FALSE, n |-> 0]

\* The two tests a document passes to be appended to all_modules.
Loaded(content) ==
    /\ Strip(content) # <<>>
    /\ Truthy(Get(parse_frontmatter(content), ACTIVE, BoolVal(TRUE)))

\* all_modules.sort(key = priority, reverse = True): a stable sort, elements of
\* equal priority keep the order of the list.
RECURSIVE InsertDesc(_, _)
InsertDesc(sorted, e) ==
    IF sorted = <<>> THEN <<e>>
    ELSE IF Head(sorted).priority >= e.priority
         THEN <<Head(sorted)>> \o InsertDesc(Tail(sorted), e)
         ELSE <<e>> \o sorted

RECURSIVE SortFrom(_, _)
SortFrom(rest, sorted) ==
    IF rest = <<>> THEN sorted ELSE SortFrom(Tail(rest), InsertDesc(sorted, Head(rest)))

SortByPriority(modules) == SortFrom(modules, <<>>)

\* "Skip frontmatter when adding content".
StripFrontmatter(content) ==
    IF StartsWithDelim(content)
    THEN LET second == IndexFrom(content, DELIM, 2)
         IN  IF second # 0 THEN Strip(SubSeq(content, second + 1, Len(content)))
             ELSE content
    ELSE content

\* The files of the store in the order MODULE_DIR.rglob("*.md") yields them.
RECURSIVE SelectFiles(_, _)
SelectFiles(order, keep) ==
    IF order = <<>> THEN <<>>
    ELSE IF Head(order) \in keep THEN <<Head(order)>> \o SelectFiles(Tail(order), keep)
    ELSE SelectFiles(Tail(order), keep)

\* What compile() does on store st scanned in the given order: it raises
\* ValueError (and writes nothing) or writes CLAUDE.md with the module count and,
\* per module in sorted order, its body.
\* The title, timestamp and project-type lines and the separators between the
\* bodies hold no text of a module and are not kept; path is the file a body
\* comes from.
CompileResult(st, order) ==
    LET kept == SelectFiles(order, {f \in DOMAIN st : Loaded(st[f])})
        prio(f) == IntPriority(parse_frontmatter(st[f]))
    IN  IF \E i \in 1..Len(kept) : ~prio(kept[i]).ok
        THEN [status |-> "ValueError", count |-> 0, entries |-> <<>>]
        ELSE LET all_modules ==
                     SortByPriority([i \in 1..Len(kept) |->
                         [path |-> kept[i], content |-> st[kept[i]],
                          priority |-> prio(kept[i]).n]])
             IN  [status |-> "ok",
                  count |-> Len(all_modules),
                  entries |-> [i \in 1..Len(all_modules) |->
                      [path |-> all_modules[i].path,
                       body |-> StripFrontmatter(all_modules[i].content)]]]

Compile ==
    LET r == CompileResult(store, scanOrder)
    IN  /\ output' = IF r.status = "ok"
                     THEN [written |-> TRUE, count |-> r.count, entries |-> r.entries]
                     ELSE output
        /\ lastOp' = [op |-> "compile", status |-> r.status]
        /\ UNCHANGED <<store, scanOrder, dlIndex, calls>>

-----------------------------------------------------------------------------
(* list_modules *)

ListModules ==
    /\ lastOp' = [op |-> "list",
                  active |-> [f \in DOMAIN store |->
                      Truthy(Get(parse_frontmatter(store[f]), ACTIVE, BoolVal(FALSE)))]]
    /\ UNCHANGED <<store, scanOrder, output, dlIndex, calls>>

-----------------------------------------------------------------------------
(* activate / deactivate *)

\* fnmatch of a file name against a glob pattern: "*" matches any run of
\* characters, "?" any one character, every other character itself.
RECURSIVE GlobMatch(_, _)
GlobMatch(pat, name) ==
    IF pat = <<>> THEN name = <<>>
    ELSE IF Head(pat) = "*"
         THEN GlobMatch(Tail(pat), name) \/ (name # <<>> /\ GlobMatch(pat, Tail(name)))
    ELSE IF Head(pat) = "?"
         THEN name # <<>> /\ GlobMatch(Tail(pat), Tail(name))
    ELSE name # <<>> /\ Head(name) = Head(pat) /\ GlobMatch(Tail(pat), Tail(name))

\* MODULE_DIR.rglob(f"*{module_name}*.md")
Matched(st, module_name) ==
    {f \in DOMAIN st : GlobMatch(<<"*">> \o module_name \o <<"*", ".md">>, f \o <<".md">>)}

RECURSIVE SkipWhitespace(_, _)
SkipWhitespace(s, i) ==
    IF i <= Len(s) /\ s[i] \in Whitespace THEN SkipWhitespace(s, i + 1) ELSE i

RECURSIVE WordEnd(_, _)
WordEnd(s, i) ==
    IF i + 1 <= Len(s) /\ s[i + 1] \in WordTokens THEN WordEnd(s, i + 1) ELSE i

\* Where a match of ^active:\s*\w+ (re.MULTILINE) that begins at i ends; 0 when
\* there is no match at i.
MatchEnd(s, i) ==
    IF /\ (i = 1 \/ s[i - 1] = NL)
       /\ s[i] = "active"
       /\ i + 1 <= Len(s)
       /\ s[i + 1] = COLON
    THEN LET j == SkipWhitespace(s, i + 2)
         IN  IF j <= Len(s) /\ s[j] \in WordTokens THEN WordEnd(s, j) ELSE 0
    ELSE 0

\* re.sub(r'^active:\s*\w+', repl, s, flags=re.MULTILINE) from position i on.
RECURSIVE ReSub(_, _, _)
ReSub(s, i, repl) ==
    IF i > Len(s) THEN <<>>
    ELSE LET e == MatchEnd(s, i)
         IN  IF e # 0 THEN repl \o ReSub(s, e + 1, repl)
             ELSE <<s[i]>> \o ReSub(s, i + 1, repl)

ActiveTrue == <<"active", COLON, SP, "true">>
ActiveFalse == <<"active", COLON, SP, "false">>

Toggle(op, module_name, repl) ==
    LET found == Matched(store, module_name)
    IN  /\ store' = [f \in DOMAIN store |->
                        IF f \in found THEN ReSub(store[f], 1, repl) ELSE store[f]]
        /\ lastOp' = [op |-> op, module_name |-> module_name,
                      reported |-> found, notFound |-> found = {}]
        /\ UNCHANGED <<scanOrder, output, dlIndex, calls>>

Fragments == {<<"a">>, <<"b">>, <<"c">>, <<"?">>}

Activate == \E module_name \in Fragments : Toggle("activate", module_name, ActiveTrue)

Deactivate == \E module_name \in Fragments : Toggle("deactivate", module_name, ActiveFalse)

-----------------------------------------------------------------------------
(* download_essential_modules / create_default_module *)

essential_modules ==
    << <<"context", "base-instructions">>,
       <<"context", "claude-md-management">>,
       <<"context", "production-mindset">>,
       <<"context", "project-structure">>,
       <<"behavior", "test-driven-development">>,
       <<"behavior", "self-improvement">>,
       <<"behavior", "proactive-todo-usage">>,
       <<"task", "todo-management">>,
       <<"tech", "python-modern">> >>

EssentialPaths == {essential_modules[i] : i \in 1..Len(essential_modules)}

\* The priority and active lines of the template create_default_module writes
\* for the name; the last case is the generic template.
TemplatePriority(name) ==
    CASE name = "base-instructions" -> <<"5", "0">>
      [] name = "project-structure" -> <<"3", "0">>
      [] name = "flow-state" -> <<"0", "5">>
      [] name = "test-driven-development" -> <<"9", "5">>
      [] name = "production-mindset" -> <<"1", "0", "0">>
      [] name = "self-improvement" -> <<"4", "0">>
      [] name = "claude-md-management" -> <<"9", "9">>
      [] name = "todo-management" -> <<"9", "0">>
      [] name = "proactive-todo-usage" -> <<"8", "5">>
      [] name = "python-modern" -> <<"8", "0">>
      [] OTHER -> <<"5">>

TemplateActive(name) ==
    IF name \in {"flow-state", "python-modern"} THEN "false"
    ELSE IF name \in {"base-instructions", "project-structure", "test-driven-development",
                      "production-mindset", "self-improvement", "claude-md-management",
                      "todo-management", "proactive-todo-usage"} THEN "true"
    ELSE "false"

\* The text create_default_module writes; the name: line and the prose of the
\* body are the token "x".
DefaultContent(name, category) ==
    <<DELIM, NL, "id", COLON, SP, name, NL, "name", COLON, SP, "x", NL,
      "category", COLON, SP, category, NL, "priority", COLON, SP>>
    \o TemplatePriority(name)
    \o <<NL, "active", COLON, SP, TemplateActive(name), NL, DELIM, NL, NL, "x", NL>>

\* path.write_text(content), the parent directories made as needed.
WriteText(st, path, content) ==
    [p \in DOMAIN st \cup {path} |-> IF p = path THEN content ELSE st[p]]

create_default_module(st, path, name, category) ==
    WriteText(st, path, DefaultContent(name, category))

\* What the remote repository may answer with.
RemoteContents == {<<"x">>}

\* calls is the log of the calls made to the network and to
\* create_default_module, in the order they are made.
Called(call, path) == [call |-> call, path |-> path]

DlRunning == dlIndex \in 1..Len(essential_modules)

\* module_path.exists(): the loop goes on to the next module.
DownloadExists ==
    /\ DlRunning
    /\ essential_modules[dlIndex] \in DOMAIN store
    /\ dlIndex' = dlIndex + 1
    /\ lastOp' = [op |-> "download", path |-> essential_modules[dlIndex], outcome |-> "exists"]
    /\ UNCHANGED <<store, scanOrder, output, calls>>

\* urlopen, read and decode succeed: the answer is written.
DownloadOk ==
    /\ DlRunning
    /\ essential_modules[dlIndex] \notin DOMAIN store
    /\ \E content \in RemoteContents :
           store' = WriteText(store, essential_modules[dlIndex], content)
    /\ calls' = Append(calls, Called("urlopen", essential_modules[dlIndex]))
    /\ dlIndex' = dlIndex + 1
    /\ lastOp' = [op |-> "download", path |-> essential_modules[dlIndex], outcome |-> "downloaded"]
    /\ UNCHANGED <<scanOrder, output>>

FetchFailed(outcome) ==
    LET path == essential_modules[dlIndex]
    IN  /\ DlRunning
        /\ path \notin DOMAIN store
        /\ store' = create_default_module(store, path, path[2], path[1])
        /\ calls' = calls \o <<Called("urlopen", path), Called("create_default_module", path)>>
        /\ dlIndex' = dlIndex + 1
        /\ lastOp' = [op |-> "download", path |-> path, outcome |-> outcome]
        /\ UNCHANGED <<scanOrder, output>>

\* except (urllib.error.URLError, urllib.error.HTTPError, TimeoutError)
DownloadNetworkError ==
    \E outcome \in {"URLError", "HTTPError", "TimeoutError"} : FetchFailed(outcome)

\* The loop without its "except Exception" clause: the exception leaves
\* download_essential_modules and the remaining modules are not looked at.
DownloadOtherErrorUncaught ==
    /\ DlRunning
    /\ essential_modules[dlIndex] \notin DOMAIN store
    /\ calls' = Append(calls, Called("urlopen", essential_modules[dlIndex]))
    /\ dlIndex' = Len(essential_modules) + 1
    /\ lastOp' = [op |-> "download", path |-> essential_modules[dlIndex], outcome |-> "Exception"]
    /\ UNCHANGED <<store, scanOrder, output>>

\* except Exception
DownloadOtherError == FetchFailed("Exception")

-----------------------------------------------------------------------------
(* The module store *)

\* The text of a file whose lines are the given ones.
Doc(lines) == JoinNL(lines)

Documents ==
    { <<>>,                                                        \* empty file
      <<SP, NL>>,                                                  \* whitespace only
      <<"x">>,                                                     \* no header
      Doc(<< <<DELIM>>, ActiveTrue, <<"priority", COLON, SP, "9">>, <<DELIM>>, <<"x">> >>),
      Doc(<< <<DELIM>>, ActiveFalse, <<DELIM>>, <<"x">> >>),
      Doc(<< <<DELIM>>, <<"priority", COLON, SP, "1", "0">>, <<DELIM>>, <<"x">> >>),
      Doc(<< <<DELIM>>, <<"priority", COLON, SP, "x">>, <<DELIM>>, <<"x">> >>),
      Doc(<< <<DELIM>>, <<"priority", COLON, SP, "true">>, <<DELIM>>, <<"x">> >>),
      Doc(<< <<DELIM>>, <<SP, SP, "active", COLON, SP, "true">>, <<DELIM>>, <<"x">> >>),
      Doc(<< <<DELIM>>, <<"active", SP, COLON, SP, "false">>, <<DELIM>>, <<"x">> >>),
      Doc(<< <<DELIM>>, <<"active", COLON>>, <<"priority", COLON, SP, "9">>, <<DELIM>>, <<"x">> >>),
      Doc(<< <<DELIM>>, <<"active", COLON, SP, QUOTE, "false", QUOTE>>, <<DELIM>>, <<"x">> >>),
      Doc(<< <<DELIM>>, <<"active", COLON, SP, "yes">>, <<DELIM>>, <<"x">> >>),
      Doc(<< <<DELIM>>, <<"active", COLON, SP, "False">>, <<DELIM>>, <<"x">> >>),
      Doc(<< <<DELIM>>, ActiveTrue, <<DELIM>>, <<"x">>, ActiveFalse >>),
      Doc(<< <<DELIM>>, <<"x", COLON, SP, "x", DELIM, "x">>, ActiveTrue, <<DELIM>>, <<"x">> >>),
      Doc(<< <<DELIM>>, ActiveFalse, <<"x">> >>) }             \* header never closed

\* Documents that differ in priority and in the active flag only.
PriorityDocuments ==
    { <<"x">>,
      Doc(<< <<DELIM>>, ActiveTrue, <<"priority", COLON, SP, "9">>, <<DELIM>>, <<"x">> >>),
      Doc(<< <<DELIM>>, <<"priority", COLON, SP, "1", "0">>, <<DELIM>>, <<"x">> >>),
      Doc(<< <<DELIM>>, <<"priority", COLON, SP, "9">>, ActiveFalse, <<DELIM>>, <<"x">> >>),
      Doc(<< <<DELIM>>, <<"priority", COLON, SP, "x">>, <<DELIM>>, <<"x">> >>) }

\* File names (stems, a character per element) the store may hold.
FileNames == << <<"a", "b">>, <<"b">>, <<"b", "a">>, <<"a">> >>

NumFiles == 2
NumSortFiles == 3

Files(n) == {FileNames[i] : i \in 1..n}

Orders(fs) ==
    {o \in [1..Cardinality(fs) -> fs] : \A i, j \in 1..Cardinality(fs) : i # j => o[i] # o[j]}

NoOutput == [written |-> FALSE, count |-> 0, entries |-> <<>>]

InitStore(fs, docs) ==
    /\ store \in [fs -> docs]
    /\ scanOrder \in Orders(fs)
    /\ output = NoOutput
    /\ lastOp = [op |-> "none"]
    /\ dlIndex = 0
    /\ calls = <<>>

Init == InitStore(Files(NumFiles), Documents)

InitSort == InitStore(Files(NumSortFiles), PriorityDocuments)

Next ==
    \/ Compile
    \/ ListModules
    \/ Activate
    \/ Deactivate

Spec == Init /\ [][Next]_vars

SpecSort == InitSort /\ [][Next]_vars

\* download_essential_modules is called on a store that holds any of the
\* essential modules already.
InitDownload ==
    /\ \E present \in SUBSET EssentialPaths : store = [p \in present |-> <<"x">>]
    /\ scanOrder = <<>>
    /\ output = NoOutput
    /\ lastOp = [op |-> "none"]
    /\ dlIndex = 1
    /\ calls = <<>>

NextDownload ==
    \/ DownloadExists
    \/ DownloadOk
    \/ DownloadNetworkError
    \/ DownloadOtherError

SpecDownload == InitDownload /\ [][NextDownload]_vars

-----------------------------------------------------------------------------
(* Vocabulary of the properties *)

Toggles == {"activate", "deactivate"}

Metadata(f) == parse_frontmatter(store[f])

\* The filter as the specification words it: non-empty content, and the active
\* key absent or its coerced value truthy.
Included(f) ==
    /\ Strip(store[f]) # <<>>
    /\ (ACTIVE \notin DOMAIN Metadata(f) \/ Truthy(Metadata(f)[ACTIVE]))

Paths(entries) == {entries[i].path : i \in 1..Len(entries)}

\* The place of f's body in CLAUDE.md, 0 when it is not there.
Pos(f) ==
    IF f \in Paths(output.entries)
    THEN CHOOSE i \in 1..Len(output.entries) : output.entries[i].path = f
    ELSE 0

ScanPos(f) == CHOOSE i \in 1..Len(scanOrder) : scanOrder[i] = f

Before(f, g) == Pos(f) # 0 /\ Pos(g) # 0 /\ Pos(f) < Pos(g)

HasIntegerPriority(f) ==
    /\ PRIORITY \in DOMAIN Metadata(f)
    /\ Metadata(f)[PRIORITY].kind = "str"
    /\ IsDecimal(Metadata(f)[PRIORITY].s)

\* The priority the specification gives a document: its integer, 5 when the key
\* is missing or its value is not a number.
SpecifiedPriority(f) ==
    IF HasIntegerPriority(f) THEN Decimal(Metadata(f)[PRIORITY].s, 0) ELSE 5

StartsWithActive(line) == Len(line) >= 2 /\ line[1] = "active" /\ line[2] = COLON

\* The first line of the document that starts with "active:", 0 when none does.
FirstActiveLine(lines) ==
    IF \E i \in 1..Len(lines) : StartsWithActive(lines[i])
    THEN CHOOSE i \in 1..Len(lines) :
             /\ StartsWithActive(lines[i])
             /\ \A j \in 1..(i - 1) : ~StartsWithActive(lines[j])
    ELSE 0

\* name contains frag as a substring.
Contains(name, frag) ==
    \E i \in 0..(Len(name) - Len(frag)) : SubSeq(name, i + 1, i + Len(frag)) = frag

FileName(f) == f \o <<".md">>

\* The line at which parse_frontmatter stops reading metadata, 0 when there is none.
ClosingLine(lines) ==
    IF \E i \in 2..Len(lines) : Strip(lines[i]) = <<DELIM>>
    THEN CHOOSE i \in 2..Len(lines) :
             /\ Strip(lines[i]) = <<DELIM>>
             /\ \A j \in 2..(i - 1) : Strip(lines[j]) # <<DELIM>>
    ELSE 0

-----------------------------------------------------------------------------
(* The claims *)

\* C1: after compile() a document's body is in the output if and only if its
\* content is not blank and its metadata has no active key or a truthy one, and
\* the "Modules:" count is the number of such documents.
C1_CompileFilter ==
    lastOp.op = "compile" =>
        /\ output.written
        /\ \A f \in DOMAIN store : f \in Paths(output.entries) <=> Included(f)
        /\ output.count = Cardinality({f \in DOMAIN store : Included(f)})

\* The same of a compile() that did not raise.
C1_WhenCompileCompletes ==
    (lastOp.op = "compile" /\ lastOp.status = "ok") =>
        /\ output.written
        /\ \A f \in DOMAIN store : f \in Paths(output.entries) <=> Included(f)
        /\ output.count = Cardinality({f \in DOMAIN store : Included(f)})

C1_Reached ==
    /\ lastOp.op = "compile"
    /\ lastOp.status = "ok"
    /\ \E f, g \in DOMAIN store : Included(f) /\ ~Included(g) /\ Strip(store[g]) # <<>>

OrderedByPriority ==
    \A f, g \in DOMAIN store :
        (Included(f) /\ Included(g) /\ HasIntegerPriority(f) /\ HasIntegerPriority(g)) =>
            /\ SpecifiedPriority(f) > SpecifiedPriority(g) => Before(f, g)
            /\ (SpecifiedPriority(f) = SpecifiedPriority(g) /\ ScanPos(f) < ScanPos(g))
                   => Before(f, g)

\* C2: after compile(), of two surviving documents with integer priorities the
\* one of higher priority comes first in the output, and two of equal priority
\* come in the order of the directory scan.
C2_PriorityOrder == lastOp.op = "compile" => OrderedByPriority

\* The same of a compile() that did not raise.
C2_WhenCompileCompletes == (lastOp.op = "compile" /\ lastOp.status = "ok") => OrderedByPriority

C2_Reached ==
    /\ lastOp.op = "compile"
    /\ lastOp.status = "ok"
    /\ \E f, g \in DOMAIN store :
           /\ Included(f) /\ Included(g) /\ HasIntegerPriority(f) /\ HasIntegerPriority(g)
           /\ SpecifiedPriority(f) > SpecifiedPriority(g)
           /\ ScanPos(g) < ScanPos(f)

\* C3: activate / deactivate leave every line of a matched document but the
\* first line that starts with "active:" unchanged, the number of lines too.
C3_OnlyFirstActiveLine ==
    [][lastOp'.op \in Toggles =>
          \A f \in lastOp'.reported :
              LET old == SplitNL(store[f])
                  new == SplitNL(store'[f])
              IN  /\ Len(new) = Len(old)
                  /\ \A i \in 1..Len(old) : i # FirstActiveLine(old) => new[i] = old[i]]_vars

\* C4: activate / deactivate leave every document whose file name does not
\* contain the fragment unchanged, and with no file name containing it they
\* report "not found" and leave the store unchanged.
C4_Pointwise ==
    [][lastOp'.op \in Toggles =>
          LET frag == lastOp'.module_name
          IN  /\ \A f \in DOMAIN store :
                     ~Contains(FileName(f), frag) => store'[f] = store[f]
              /\ (\A f \in DOMAIN store : ~Contains(FileName(f), frag))
                     => (lastOp'.notFound /\ store' = store)]_vars

\* C5: list_modules shows a document whose metadata has no active key as
\* active, and marks every document as compile's test of the active flag
\* decides it.
C5_ListAgreesWithCompile ==
    lastOp.op = "list" =>
        \A f \in DOMAIN store :
            /\ ACTIVE \notin DOMAIN Metadata(f) => lastOp.active[f]
            /\ lastOp.active[f] <=> Truthy(Get(Metadata(f), ACTIVE, BoolVal(TRUE)))

\* C6: compile() completes and writes the output on every store, and orders a
\* surviving document whose priority is missing or not a number as priority 5.
C6_PriorityDefault ==
    lastOp.op = "compile" =>
        /\ lastOp.status = "ok"
        /\ output.written
        /\ \A f, g \in DOMAIN store :
               (Included(f) /\ Included(g) /\ SpecifiedPriority(f) > SpecifiedPriority(g))
                   => Before(f, g)

\* C8: a toggle leaves a matched document with no line starting with "active:"
\* unchanged and does not report it as changed.
C8_NoActiveLineNoOp ==
    [][lastOp'.op \in Toggles =>
          \A f \in Matched(store, lastOp'.module_name) :
              (\A i \in 1..Len(SplitNL(store[f])) : ~StartsWithActive(SplitNL(store[f])[i]))
                  => (store'[f] = store[f] /\ f \notin lastOp'.reported)]_vars

\* C9: of a non-empty document whose parsed metadata has an active key, the
\* compile that follows deactivate leaves the body out and the compile that
\* follows activate puts it in.
C9_ToggleThenCompile ==
    [][lastOp'.op \in Toggles =>
          \A f \in Matched(store, lastOp'.module_name) :
              (Strip(store[f]) # <<>> /\ ACTIVE \in DOMAIN parse_frontmatter(store[f])) =>
                  LET next == CompileResult(store', scanOrder')
                  IN  IF lastOp'.op = "deactivate"
                      THEN f \notin Paths(next.entries)
                      ELSE next.status = "ok" /\ f \in Paths(next.entries)]_vars

\* C10: the body compile emits for a document that starts with the delimiter
\* and has a closing delimiter line is the text after the line at which
\* parse_frontmatter stops, and for a document that does not start with the
\* delimiter it is the content.
C10_HeaderEnd ==
    (lastOp.op = "compile" /\ lastOp.status = "ok") =>
        \A i \in 1..Len(output.entries) :
            LET content == store[output.entries[i].path]
                lines == SplitNL(content)
                close == ClosingLine(lines)
            IN  /\ (StartsWithDelim(content) /\ close # 0) =>
                       output.entries[i].body =
                           Strip(JoinNL(SubSeq(lines, close + 1, Len(lines))))
                /\ ~StartsWithDelim(content) => output.entries[i].body = content

-----------------------------------------------------------------------------
(* C7: download_essential_modules *)

Failures == {"URLError", "HTTPError", "TimeoutError", "Exception"}

\* How often the call was made for the path.
CallCount(call, path) ==
    Cardinality({i \in 1..Len(calls) : calls[i] = Called(call, path)})

Fetches(path) == CallCount("urlopen", path)
Defaults(path) == CallCount("create_default_module", path)

DownloadState ==
    /\ \A i \in 1..Len(essential_modules) :
           LET path == essential_modules[i]
           IN  IF i < dlIndex
               THEN /\ path \in DOMAIN store
                    /\ Fetches(path) <= 1
                    /\ Defaults(path) <= Fetches(path)
                    /\ Defaults(path) = 1 => store[path] = DefaultContent(path[2], path[1])
               ELSE Fetches(path) = 0 /\ Defaults(path) = 0
    /\ (lastOp.op = "download" /\ lastOp.outcome \in Failures) =>
           /\ Fetches(lastOp.path) = 1
           /\ Defaults(lastOp.path) = 1
           /\ dlIndex <= Len(essential_modules) => ENABLED NextDownload

DownloadStep ==
    \A path \in DOMAIN store :
        /\ path \in DOMAIN store'
        /\ store'[path] = store[path]
        /\ \A i \in 1..Len(calls') : calls'[i].path = path => i <= Len(calls)

\* C7: every essential module the loop has passed is present, whatever the
\* fetch did; a failed fetch is followed by one create_default_module and no
\* second fetch, and the loop goes on; a file that exists is neither fetched
\* nor written.
C7_DownloadBackstop == []DownloadState /\ [][DownloadStep]_vars

C7_Reached ==
    /\ dlIndex = Len(essential_modules) + 1
    /\ lastOp.op = "download"
    /\ lastOp.outcome = "Exception"
    /\ \E p, q, r \in EssentialPaths :
           /\ Fetches(p) = 0
           /\ Fetches(q) = 1 /\ Defaults(q) = 0
           /\ Fetches(r) = 1 /\ Defaults(r) = 1
           /\ r # lastOp.path

====
